---- MODULE Spec2Model ----
(***************************************************************************)
(* Model of the Memory Palace AI service (src/AI): the request handlers of *)
(* app.py and the service methods they delegate to.  Every handler is one  *)
(* action; the service methods and the prompt builders are operators       *)
(* translated from their Python bodies.  The external models (the chat     *)
(* runtime, the face encoder) are inputs drawn from bounded sets.          *)
(***************************************************************************)
EXTENDS Integers, Sequences, FiniteSets, TLC

VARIABLES
    is_ready,     \* component -> its _is_ready flag, set by _initialize
    phase,        \* "idle": no request in hand; "done": a call has returned
    op,           \* the operation that ran last
    request,      \* its input
    outcome,      \* what the external model did during the call
    invocations,  \* sequence of model invocations made during the call
    prompt,       \* the prompt built during the call (chat only)
    result,       \* what the service method returned or raised
    response,     \* the HTTP response of the endpoint
    services,     \* component -> the global of app.py holds an object (not None)
    loads,        \* component -> its model can be loaded or verified
    files,        \* the files that exist in the file system
    loop,         \* the request whose code the event loop thread is running
    flights       \* request slot -> what the request in it is waiting for

vars == <<is_ready, phase, op, request, outcome, invocations, prompt, result, response,
          services, loads, files, loop, flights>>

----------------------------------------------------------------------------
(* Bounds of the model *)

MaxMems   == 2    \* context memories per request when building prompts
MaxCtx    == 1    \* context memories per request sent through the handlers
MaxScenes == 2    \* scenes in a cinematic reply of the chat model
MaxTags   == 4    \* elements of a seasonal_tags list in an analysis reply
MaxNum    == 6    \* largest number the analysis model returns as a score
MaxKnown  == 2    \* known faces per recognition request
MaxProbe  == 2    \* faces detected in a probe image
MaxEnc    == 2    \* distinct face encodings 0..MaxEnc
MaxTemp   == 3    \* temporary file names the file system can hand out
MaxFlight == 2    \* requests the server handles at the same time

SeqsUpTo(S, n) == UNION {[1..k -> S] : k \in 0..n}

Min2(a, b) == IF a < b THEN a ELSE b

----------------------------------------------------------------------------
(* JSON values as json.loads produces them.  Every value has the same      *)
(* shape: k is the Python type, s/n/l the payload for str/number/list.     *)
(* "absent" stands for a key that is not in the object.                    *)

JV(k, s, n, l) == [k |-> k, s |-> s, n |-> n, l |-> l]
JAbsent   == JV("absent", "", 0, <<>>)
JNull     == JV("null", "", 0, <<>>)
JStr(s)   == JV("str", s, 0, <<>>)
JNum(n)   == JV("num", "", n, <<>>)
JBool(b)  == JV("bool", "", IF b THEN 1 ELSE 0, <<>>)
JList(l)  == JV("list", "", 0, l)
JObj      == JV("dict", "", 0, <<>>)
\* numbers json.loads accepts that are not ordinary finite floats
JSpecial(k) == JV(k, "", 0, <<>>)     \* k in "nan", "inf", "ninf", "huge"

----------------------------------------------------------------------------
(* models/ai_models.py: ChatRequest, MemoryContext, PatientContext.  A     *)
(* text (a memory description, a patient name) is the sequence of its      *)
(* pieces: words, spaces and punctuation marks.                            *)

OverrideQuery == "The user showed me a photo I recognize. Please describe the following memory to them in a warm, narrative style. Do not make it a cinematic show."

MemoryIds   == {"m1", "m2"}
MemoryTypes == {"photo", "video", "text"}
MemoryContext ==
    [memory_id : MemoryIds, type : MemoryTypes, description : {<< "The", " ", "beach" >>}]

\* patient_context: Optional[PatientContext] = None; given is FALSE for None
NoPatient == [given |-> FALSE, name |-> << >>, age |-> 0, description |-> ""]
PatientContext ==
    [given : {TRUE}, name : {<< >>, << "Kate" >>}, age : {0, 82},
     description : {"", "Retired teacher"}]

\* descriptions around one word: the marker, the name, or neither
Descriptions ==
    { pre \o << w >> \o post :
        pre  \in {<< >>, << "At", " " >>},
        w    \in {"You", "you", "Kate", "KATE", "beach"},
        post \in {<< >>, << " ", "smiled" >>, << "." >>} }

\* conversation_type: Optional[str] = "memory_based"
ConversationTypes == {"casual", "memory_based", "other", "None"}
Queries == {OverrideQuery, "Tell me about the beach"}

ChatRequest(n) ==
    [query : Queries,
     context_memories : SeqsUpTo(MemoryContext, n),
     patient_context : {NoPatient},
     conversation_type : ConversationTypes]

\* requests about text memories, with and without a patient
PatientRequests ==
    [query : {"Tell me about the beach"},
     context_memories :
        SeqsUpTo([memory_id : {"m1"}, type : {"text"}, description : Descriptions], MaxMems),
     patient_context : {NoPatient} \cup PatientContext,
     conversation_type : {"memory_based"}]

----------------------------------------------------------------------------
(* ChatService._construct_prompt.  The prompt is the sequence of the       *)
(* instruction lines the code appends; a line keeps the source line's      *)
(* meaning (k) and the values interpolated into it.                        *)

Line(k, n, id, ty, short) == [k |-> k, n |-> n, id |-> id, ty |-> ty, short |-> short]
L(k)     == Line(k, 0, "", "", FALSE)
LN(k, n) == Line(k, n, "", "", FALSE)

\* videos left out of the visual memories
IsVisual_photoOnly(mem) == mem.type \in {"photo"}

IsVisual(mem) == mem.type \in {"photo", "video"}

\* lines 43-48: persona and the two permitted JSON shapes
PromptHeader == << L("persona"), L("json_structure"), L("shape_narrative"), L("shape_cinematic") >>

\* lines 50-54
CasualSection ==
    << L("casual_mode"), L("casual_no_memories"), L("casual_use_narrative"), L("casual_companion") >>

\* lines 56-69
MemoryBasedSection(req) ==
    LET has_visual == \E i \in 1..Len(req.context_memories) : IsVisual(req.context_memories[i])
        visual_count == Len(SelectSeq(req.context_memories, IsVisual))
    IN  << L("memory_mode"), L("memories_provided") >> \o
        (IF has_visual
            THEN << LN("use_cinematic", visual_count),
                    LN("create_exactly_scenes", visual_count),
                    LN("include_all_scenes", visual_count) >>
            ELSE << L("memory_use_narrative"), L("weave") >>)

\* lines 50-69
ModeSection(req) ==
    IF req.conversation_type = "casual" THEN CasualSection
    ELSE IF req.conversation_type = "memory_based" THEN MemoryBasedSection(req)
    ELSE << >>

\* lines 71-73
OverrideSection(req) ==
    IF req.query = OverrideQuery
        THEN << L("override"), L("override_use_narrative") >>
        ELSE << >>

\* lines 75-82
RulesSection ==
    << L("rules"), L("rule_only_memories"), L("rule_relationship"), L("rule_you"),
       L("rule_memory_id_match"), L("rule_titles"), L("rule_video_short"),
       L("rule_no_hallucination") >>

\* lines 84-91
PatientSection(req) ==
    IF req.patient_context.given
        THEN << L("patient_info"), L("patient_name") >> \o
             (IF req.patient_context.age # 0 THEN << L("patient_age") >> ELSE << >>) \o
             (IF req.patient_context.description # "" THEN << L("patient_notes") >> ELSE << >>)
        ELSE << >>

\* lines 101-104: str.lower, in, startswith and endswith on the pieces
patient_is_present(patient_name, description) ==
    LET lower(t) == [i \in 1..Len(t) |->
                        CASE t[i] \in {"You", "you"}   -> "you"
                          [] t[i] \in {"Kate", "KATE"} -> "kate"
                          [] t[i] = "At"               -> "at"
                          [] t[i] = "The"              -> "the"
                          [] OTHER                     -> t[i]]
        startswith(t, x) == Len(x) <= Len(t) /\ SubSeq(t, 1, Len(x)) = x
        endswith(t, x) == Len(x) <= Len(t) /\ SubSeq(t, Len(t) - Len(x) + 1, Len(t)) = x
        in(x, t) == \E k \in 0..(Len(t) - Len(x)) : SubSeq(t, k + 1, k + Len(x)) = x
    IN  \/ in(lower(patient_name), lower(description))
        \/ in(<< " ", "you", " " >>, lower(description))
        \/ startswith(lower(description), << "you", " " >>)
        \/ endswith(lower(description), << " ", "you" >>)

\* lines 96-109: the first n memories, each with its description and, when
\* the patient has a name, its status
RECURSIVE MemoryLines(_, _, _)
MemoryLines(mems, patient_name, n) ==
    IF n = 0 THEN << >>
    ELSE MemoryLines(mems, patient_name, n - 1) \o
         << Line("memory", n, mems[n].memory_id, "", FALSE),
            Line("description", n, mems[n].memory_id, "", FALSE) >> \o
         (IF Len(patient_name) > 0
             THEN << Line("patient_status", n, mems[n].memory_id,
                          IF patient_is_present(patient_name, mems[n].description)
                              THEN "PRESENT" ELSE "NOT PRESENT",
                          FALSE) >>
             ELSE << >>)

\* lines 111-118
SceneLines(visual_memories) ==
    [i \in 1..Len(visual_memories) |->
        Line("scene", i, visual_memories[i].memory_id, visual_memories[i].type,
             visual_memories[i].type = "video")]

MandatoryScenes(visual_memories) ==
    IF Len(visual_memories) > 0
        THEN << LN("must_create_scenes", Len(visual_memories)) >> \o
             SceneLines(visual_memories) \o
             << LN("not_fewer_scenes", Len(visual_memories)) >>
        ELSE << >>

\* lines 93-121
MemoriesSection(req) ==
    IF Len(req.context_memories) > 0
        THEN LET visual_memories == SelectSeq(req.context_memories, IsVisual)
                 patient_name == IF req.patient_context.given
                                    THEN req.patient_context.name ELSE << >>
             IN  << L("relevant_memories") >> \o
                 MemoryLines(req.context_memories, patient_name, Len(req.context_memories)) \o
                 MandatoryScenes(visual_memories)
        ELSE << L("no_relevant_memories"), L("no_memories_found") >>

\* lines 123-128
RespondSection(req) ==
    << L("respond_now"), L("user_query") >> \o
    (IF req.conversation_type = "casual"
        THEN << L("respond_casual_narrative") >>
        ELSE << L("respond_appropriate") >>)

_construct_prompt(req) ==
    PromptHeader \o ModeSection(req) \o OverrideSection(req) \o RulesSection \o
    PatientSection(req) \o MemoriesSection(req) \o RespondSection(req)

----------------------------------------------------------------------------
(* Results of a Python call: a returned value or a raised exception *)

Return(v) == [kind |-> "return", value |-> v]
Raise(e)  == [kind |-> "raise", value |-> e]

\* the value of a name that has not been assigned
NoValue == [kind |-> "none"]

(* The chat runtime (ollama.Client.chat): the call raises, or it returns   *)
(* a reply whose content is text.  json.loads maps the text to a value or  *)
(* raises JSONDecodeError.                                                 *)

ModelRaises     == [call |-> "raise", valid |-> FALSE, value |-> NoValue]
ModelReplies(v) == [call |-> "ok", valid |-> TRUE, value |-> v]
ModelGarbles    == [call |-> "ok", valid |-> FALSE, value |-> NoValue]

json_loads(out) ==
    IF out.valid THEN Return(out.value) ELSE Raise("JSONDecodeError")

----------------------------------------------------------------------------
(* models/ai_models.py: NarrativeResponse, Scene, CinematicShow.  The      *)
(* constructors validate their keyword arguments; unknown keys are         *)
(* ignored, a missing or wrongly typed field raises ValidationError        *)
(* (pydantic 2: a number is not coerced to str).                           *)

Director(rt, message, show_title, scenes) ==
    [response_type |-> rt, message |-> message, show_title |-> show_title, scenes |-> scenes]

Narrative(message) == Director("narrative", message, "", <<>>)

IsStr(v) == v.k = "str"

NarrativeResponse(data) ==
    IF IsStr(data.message)
        THEN Return(Narrative(data.message.s))
        ELSE Raise("ValidationError")

\* Scene(memory_id: str, narration: str) built from a list element
SceneValid(e) == e.isobj /\ IsStr(e.memory_id) /\ IsStr(e.narration)
Scene(e) == [memory_id |-> e.memory_id.s, narration |-> e.narration.s]

CinematicShow(data) ==
    IF /\ IsStr(data.show_title)
       /\ data.scenes.k = "list"
       /\ \A i \in 1..Len(data.scenes.l) : SceneValid(data.scenes.l[i])
        THEN Return(Director("cinematic_show", "", data.show_title.s,
                             [i \in 1..Len(data.scenes.l) |-> Scene(data.scenes.l[i])]))
        ELSE Raise("ValidationError")

----------------------------------------------------------------------------
(* ChatService.generate_response *)

NotAvailableMessage == "Error: The AI Director service is not available or the configured model is not installed."
ApologyMessage == "I'm sorry, I had a little trouble organizing my thoughts."

\* lines 153-160: interpret the parsed reply
InterpretReply(response_data) ==
    IF response_data.k # "dict" THEN Raise("AttributeError")
    ELSE IF response_data.response_type = JStr("cinematic_show") THEN CinematicShow(response_data)
    ELSE IF response_data.response_type = JStr("narrative") THEN NarrativeResponse(response_data)
    ELSE Raise("ValueError")

\* lines 142-160: the body of the try block
ChatTry(out) ==
    IF out.call = "raise" THEN Raise("ResponseError")
    ELSE LET parsed == json_loads(out)
         IN  IF parsed.kind = "raise" THEN parsed ELSE InterpretReply(parsed.value)

\* a handler that catches parse errors only
ChatCatches_parseOnly(e) == e = "JSONDecodeError"

\* line 162: except Exception
ChatCatches(e) == TRUE

\* lines 162-164
ChatExcept(r) ==
    IF r.kind = "raise" /\ ChatCatches(r.value) THEN Return(Narrative(ApologyMessage)) ELSE r

\* a second attempt after a failed call
ChatInvocations_retry(p, r) == IF r.kind = "raise" THEN << p, p >> ELSE << p >>

\* the model invocations made by one call, line 142: one chat() call, no loop
ChatInvocations(p, r) == << p >>

generate_response(ready, req, out) ==
    IF ~ready
        THEN [result |-> Return(Narrative(NotAvailableMessage)),
              prompt |-> <<>>, invocations |-> <<>>]
        ELSE LET p == _construct_prompt(req)
                 r == ChatTry(out)
             IN  [result |-> ChatExcept(r), prompt |-> p, invocations |-> ChatInvocations(p, r)]

----------------------------------------------------------------------------
(* Replies of the chat model to a director prompt *)

ChatJson(k, rt, message, show_title, scenes) ==
    [k |-> k, response_type |-> rt, message |-> message, show_title |-> show_title, scenes |-> scenes]

SceneElement(isobj, memory_id, narration) ==
    [isobj |-> isobj, memory_id |-> memory_id, narration |-> narration]

SceneElements ==
    { SceneElement(TRUE, JStr("m1"), JStr("A sunny day")),
      SceneElement(TRUE, JStr("m2"), JStr("The party")),
      SceneElement(TRUE, JStr("m1"), JNum(7)) }

ChatReplyValues ==
    { ChatJson("dict", rt, m, t, sc) :
        rt \in {JAbsent, JStr("narrative"), JStr("cinematic_show"), JStr("story")},
        m  \in {JAbsent, JStr("Hi"), JNum(7)},
        t  \in {JAbsent, JStr("Our Day"), JNum(7)},
        sc \in {JAbsent, JStr("none")} \cup {JList(l) : l \in SeqsUpTo(SceneElements, MaxScenes)} }
    \cup { ChatJson(k, JAbsent, JAbsent, JAbsent, JAbsent) : k \in {"list", "str", "num", "null"} }

ChatOutcomes == {ModelRaises, ModelGarbles} \cup {ModelReplies(v) : v \in ChatReplyValues}

----------------------------------------------------------------------------
(* HTTP responses of app.py *)

Http(status, body) == [status |-> status, body |-> body]

\* the model was not called
NoCall == [call |-> "none", valid |-> FALSE, value |-> NoValue]

\* app.py lines 67-73: the services in the order lifespan constructs them
ServiceOrder ==
    << "chat", "analysis", "vision", "transcription", "face", "embedding", "tts" >>
Components == {ServiceOrder[i] : i \in 1..Len(ServiceOrder)}
OrderOf(c) == CHOOSE i \in 1..Len(ServiceOrder) : ServiceOrder[i] = c

\* the _initialize methods that re-raise a load failure:
\* vision_service.py line 49, tts_service.py line 28
ReRaises(c) == c \in {"vision", "tts"}

\* the constructor of c raises when its model does not load
ConstructorRaises(l, c) == ~l[c] /\ ReRaises(c)

\* app.py lines 65-80: the constructors run in order inside one try block;
\* the first one that raises ends the block, c and the globals after it stay
\* None
Constructed(l, c) == \A i \in 1..OrderOf(c) : ~ConstructorRaises(l, ServiceOrder[i])

\* the globals and the _is_ready flags lifespan leaves behind.  A component
\* that is None has no flag; its entry is FALSE.
lifespan_services(l) == [c \in Components |-> Constructed(l, c)]
lifespan_is_ready(l) == [c \in Components |-> Constructed(l, c) /\ l[c]]

\* the load outcomes in which every component outside C loads
Startups(C) == {l \in [Components -> BOOLEAN] : \A c \in Components \ C : l[c]}

\* a file of the caller, and the names tempfile can hand out
CallerFile == << "recording.webm", 0 >>
TempNames == {<< "tmp", i >> : i \in 1..MaxTemp}
Slots == 1..MaxFlight
NoFlight == [op |-> "none", at |-> "none"]

InitRequest(req) ==
    /\ phase = "idle"
    /\ op = "none"
    /\ request = req
    /\ outcome = NoCall
    /\ invocations = <<>>
    /\ prompt = <<>>
    /\ result = NoValue
    /\ response = NoValue
    /\ files = {CallerFile}
    /\ loop = 0
    /\ flights = [r \in Slots |-> NoFlight]

\* the state after startup
InitWith(C, req) ==
    /\ loads \in Startups(C)
    /\ services = lifespan_services(loads)
    /\ is_ready = lifespan_is_ready(loads)
    /\ InitRequest(req)

\* a handler that marks the component not ready after a failed call
AfterCall_dropOnFailure(flags, c, r) ==
    IF r.kind = "raise" THEN [flags EXCEPT ![c] = FALSE] ELSE flags

\* no request handler assigns a global of app.py or an _is_ready flag
AfterCall(flags, c, r) == flags

\* a guard that tests the global only
Unavailable_noneOnly(c) == ~services[c]

\* lines 125, 140, 168, 185, 212, 226, 245 of app.py:
\* if not service or not service.is_ready()
Unavailable(c) == ~services[c] \/ ~is_ready[c]

\* the caller has its answer; the next request can be taken
Return_ ==
    /\ phase = "done"
    /\ phase' = "idle"
    /\ op' = "none"
    /\ request' = NoValue
    /\ outcome' = NoCall
    /\ invocations' = <<>>
    /\ prompt' = <<>>
    /\ result' = NoValue
    /\ response' = NoValue
    /\ UNCHANGED <<is_ready, services, loads, files, loop, flights>>

\* what the chat runtime does if it is called
ChatOutcomesIf(called) == IF called THEN ChatOutcomes ELSE {NoCall}

\* a direct call of ChatService.generate_response
call_generate_response ==
    /\ phase = "idle"
    /\ services["chat"]
    /\ \E req \in ChatRequest(MaxCtx) : \E out \in ChatOutcomesIf(is_ready["chat"]) :
         LET g == generate_response(is_ready["chat"], req, out)
         IN  /\ request' = req
             /\ outcome' = out
             /\ invocations' = g.invocations
             /\ prompt' = g.prompt
             /\ result' = g.result
             /\ response' = NoValue
    /\ op' = "generate_response"
    /\ phase' = "done"
    /\ is_ready' = AfterCall(is_ready, "chat", result')
    /\ UNCHANGED <<services, loads, files, loop, flights>>

\* app.py POST /chat, lines 119-131, for requests R and model outcomes O
chat_on(R, O) ==
    /\ phase = "idle"
    /\ \E req \in R :
         /\ request' = req
         /\ IF Unavailable("chat")
               THEN /\ response' = Http(503, "Conversation service is not available.")
                    /\ outcome' = NoCall
                    /\ invocations' = <<>>
                    /\ prompt' = <<>>
                    /\ result' = NoValue
               ELSE \E out \in O :
                      LET g == generate_response(is_ready["chat"], req, out)
                      IN  /\ outcome' = out
                          /\ invocations' = g.invocations
                          /\ prompt' = g.prompt
                          /\ result' = g.result
                          /\ response' = IF g.result.kind = "return"
                                            THEN Http(200, g.result.value)
                                            ELSE Http(500, g.result.value)
    /\ op' = "chat"
    /\ phase' = "done"
    /\ is_ready' = AfterCall(is_ready, "chat", result')
    /\ UNCHANGED <<services, loads, files, loop, flights>>

chat == chat_on(ChatRequest(MaxCtx), ChatOutcomes)

\* building the prompt of a request of R, on its own
construct_prompt_on(R) ==
    /\ phase = "idle"
    /\ \E req \in R :
         /\ request' = req
         /\ prompt' = _construct_prompt(req)
    /\ op' = "_construct_prompt"
    /\ phase' = "done"
    /\ UNCHANGED <<is_ready, outcome, invocations, result, response>>
    /\ UNCHANGED <<services, loads, files, loop, flights>>

construct_prompt == construct_prompt_on(ChatRequest(MaxMems))

InitPrompt == InitWith({}, NoValue)
NextPrompt == construct_prompt \/ Return_
SpecPrompt == InitPrompt /\ [][NextPrompt]_vars

InitPatient == InitWith({}, NoValue)
NextPatient == construct_prompt_on(PatientRequests) \/ Return_
SpecPatient == InitPatient /\ [][NextPatient]_vars

InitChat == InitWith({"chat"}, NoValue)
NextChat == chat \/ call_generate_response \/ Return_
SpecChat == InitChat /\ [][NextChat]_vars

----------------------------------------------------------------------------
(* Python floats: a finite number (kept as an integer), nan, inf or -inf   *)

Fin(n)   == [k |-> "fin", n |-> n]
FNaN     == [k |-> "nan", n |-> 0]
FInf     == [k |-> "inf", n |-> 0]
FNegInf  == [k |-> "ninf", n |-> 0]

\* a < b and a > b on floats; every comparison with nan is False
FloatLt(a, b) ==
    CASE a.k = "nan" \/ b.k = "nan" -> FALSE
      [] a.k = "ninf" -> b.k # "ninf"
      [] a.k = "inf"  -> FALSE
      [] OTHER        -> b.k = "inf" \/ (b.k = "fin" /\ a.n < b.n)
FloatGt(a, b) == FloatLt(b, a)

\* the builtins min(a, b) and max(a, b): the first argument wins ties
PyMin(a, b) == IF FloatLt(b, a) THEN b ELSE a
PyMax(a, b) == IF FloatGt(b, a) THEN b ELSE a

\* strings float() parses
NumericStrings == {"3", "9"}
StrToNum(s) == IF s = "3" THEN 3 ELSE 9

\* the builtin float(x)
PyFloat(v) ==
    CASE v.k \in {"num", "bool"} -> Return(Fin(v.n))
      [] v.k = "nan"  -> Return(FNaN)
      [] v.k = "inf"  -> Return(FInf)
      [] v.k = "ninf" -> Return(FNegInf)
      [] v.k = "huge" -> Raise("OverflowError")
      [] v.k = "str"  -> IF v.s \in NumericStrings THEN Return(Fin(StrToNum(v.s)))
                                                   ELSE Raise("ValueError")
      [] OTHER        -> Raise("TypeError")

----------------------------------------------------------------------------
(* ProactiveAnalysisService *)

Analysis(anniversary_type, seasonal_tags, proactive_score, reasoning) ==
    [anniversary_type |-> anniversary_type, seasonal_tags |-> seasonal_tags,
     proactive_score |-> proactive_score, reasoning |-> reasoning]

\* _construct_analysis_prompt, line 46: the labels the prompt offers
AnniversaryTypes ==
    {"work", "graduation", "birthday", "wedding", "anniversary", "retirement", "death"}

\* _get_default_analysis, lines 110-117
_get_default_analysis ==
    Analysis(JNull, <<>>, Fin(0), JStr("Analysis failed, using default values."))

\* dict.get(key, default)
Get(v, default) == IF v.k = "absent" THEN default ELSE v

\* line 92
NormalizeAnniversary(v) == IF v = JStr("null") THEN JNull ELSE v

\* lines 94-95 and the slice of line 105
NormalizeTags(v) == IF v.k = "list" THEN v.l ELSE <<>>
Truncate(l) == SubSeq(l, 1, Min2(3, Len(l)))

\* line 100: except (ValueError, TypeError)
ScoreCatches(e) == e \in {"ValueError", "TypeError"}

\* the upper limit forgotten
Clamp_noUpper(f) == PyMax(Fin(0), f)

\* line 99
Clamp(f) == PyMax(Fin(0), PyMin(Fin(5), f))

\* lines 97-101
NormalizeScore(v) ==
    LET f == PyFloat(v)
    IN  IF f.kind = "return" THEN Return(Clamp(f.value))
        ELSE IF ScoreCatches(f.value) THEN Return(Fin(0))
        ELSE f

\* _validate_analysis_result, lines 89-108
_validate_analysis_result(raw_result) ==
    IF raw_result.k # "dict" THEN Raise("AttributeError")
    ELSE LET anniversary_type == NormalizeAnniversary(Get(raw_result.anniversary_type, JNull))
             seasonal_tags == NormalizeTags(Get(raw_result.seasonal_tags, JList(<<>>)))
             proactive_score == NormalizeScore(Get(raw_result.proactive_score, JNum(0)))
         IN  IF proactive_score.kind = "raise" THEN proactive_score
             ELSE Return(Analysis(anniversary_type, Truncate(seasonal_tags),
                                  proactive_score.value,
                                  Get(raw_result.reasoning, JStr("No reasoning provided."))))

\* lines 68-81: the body of the try block
AnalysisTry(out) ==
    IF out.call = "raise" THEN Raise("ResponseError")
    ELSE LET parsed == json_loads(out)
         IN  IF parsed.kind = "raise" THEN parsed ELSE _validate_analysis_result(parsed.value)

\* the second except clause missing
AnalysisCatches_parseOnly(e) == e = "JSONDecodeError"

\* lines 82 and 85: except json.JSONDecodeError, except Exception
AnalysisCatches(e) == TRUE

\* lines 82-87
AnalysisExcept(r) ==
    IF r.kind = "raise" /\ AnalysisCatches(r.value) THEN Return(_get_default_analysis) ELSE r

\* line 72: one chat() call, no loop
AnalysisInvocations(r) == << "analysis_prompt" >>

analyze_memory(ready, out) ==
    IF ~ready
        THEN [result |-> Return(_get_default_analysis), invocations |-> <<>>]
        ELSE LET r == AnalysisTry(out)
             IN  [result |-> AnalysisExcept(r), invocations |-> AnalysisInvocations(r)]

\* models/ai_models.py MemoryAnalysisResponse(**result), lines 35-39
MemoryAnalysisResponse(d) ==
    IF /\ d.anniversary_type.k \in {"null", "str"}
       /\ \A i \in 1..Len(d.seasonal_tags) : IsStr(d.seasonal_tags[i])
       /\ d.proactive_score.k = "fin"
       /\ IsStr(d.reasoning)
        THEN Return(d)
        ELSE Raise("ValidationError")

----------------------------------------------------------------------------
(* Replies of the chat model to an analysis prompt *)

AnalysisJson(k, anniversary_type, seasonal_tags, proactive_score, reasoning) ==
    [k |-> k, anniversary_type |-> anniversary_type, seasonal_tags |-> seasonal_tags,
     proactive_score |-> proactive_score, reasoning |-> reasoning]

TagElements == {JStr("summer"), JNum(1)}

ScoreValues ==
    {JAbsent, JNull, JStr("3"), JStr("9"), JStr("high"), JList(<<>>), JBool(TRUE),
     JSpecial("nan"), JSpecial("inf"), JSpecial("ninf"), JSpecial("huge")}
    \cup {JNum(n) : n \in -1..MaxNum}

AnalysisReplyValues ==
    { AnalysisJson("dict", a, t, sc, r) :
        a  \in {JAbsent, JStr("null"), JStr("birthday"), JStr("party"), JNum(7), JObj},
        t  \in {JAbsent, JStr("summer")} \cup {JList(l) : l \in SeqsUpTo(TagElements, MaxTags)},
        sc \in ScoreValues,
        r  \in {JAbsent, JNull, JStr("A family holiday."), JNum(7)} }
    \cup { AnalysisJson(k, JAbsent, JAbsent, JAbsent, JAbsent) : k \in {"list", "str", "num", "null"} }

AnalysisOutcomes == {ModelRaises, ModelGarbles} \cup {ModelReplies(v) : v \in AnalysisReplyValues}

AnalysisOutcomesIf(called) == IF called THEN AnalysisOutcomes ELSE {NoCall}

\* models/ai_models.py MemoryAnalysisRequest
MemoryAnalysisRequest ==
    [title : {"Summer at the lake"}, type : {"photo"}, people_present : {<<>>, <<"Kate">>}]

\* a direct call of ProactiveAnalysisService.analyze_memory
call_analyze_memory ==
    /\ phase = "idle"
    /\ services["analysis"]
    /\ \E req \in MemoryAnalysisRequest : \E out \in AnalysisOutcomesIf(is_ready["analysis"]) :
         LET a == analyze_memory(is_ready["analysis"], out)
         IN  /\ request' = req
             /\ outcome' = out
             /\ invocations' = a.invocations
             /\ result' = a.result
    /\ op' = "analyze_memory"
    /\ phase' = "done"
    /\ is_ready' = AfterCall(is_ready, "analysis", result')
    /\ UNCHANGED <<prompt, response, services, loads, files, loop, flights>>

\* app.py POST /analyze-memory, lines 134-162, for model outcomes O
analyze_memory_endpoint_on(O) ==
    /\ phase = "idle"
    /\ \E req \in MemoryAnalysisRequest :
         /\ request' = req
         /\ IF Unavailable("analysis")
               THEN /\ response' = Http(503, "Memory analysis service is not available.")
                    /\ outcome' = NoCall
                    /\ invocations' = <<>>
                    /\ result' = NoValue
               ELSE \E out \in O :
                      LET a == analyze_memory(is_ready["analysis"], out)
                          m == IF a.result.kind = "return"
                                  THEN MemoryAnalysisResponse(a.result.value)
                                  ELSE a.result
                      IN  /\ outcome' = out
                          /\ invocations' = a.invocations
                          /\ result' = a.result
                          /\ response' = IF m.kind = "return" THEN Http(200, m.value)
                                                              ELSE Http(500, m.value)
    /\ op' = "analyze_memory_endpoint"
    /\ phase' = "done"
    /\ is_ready' = AfterCall(is_ready, "analysis", result')
    /\ UNCHANGED <<prompt, services, loads, files, loop, flights>>

analyze_memory_endpoint == analyze_memory_endpoint_on(AnalysisOutcomes)

InitAnalysis == InitWith({"analysis"}, NoValue)
NextAnalysis == analyze_memory_endpoint \/ call_analyze_memory \/ Return_
SpecAnalysis == InitAnalysis /\ [][NextAnalysis]_vars

InitLLM == InitWith({"chat", "analysis"}, NoValue)
NextLLM == chat \/ call_generate_response \/ analyze_memory_endpoint \/ call_analyze_memory \/ Return_
SpecLLM == InitLLM /\ [][NextLLM]_vars

----------------------------------------------------------------------------
(* FaceRecognitionService.  A face encoding is a point 0..MaxEnc; two      *)
(* neighbouring points are 0.4 apart.  Distances are in tenths.            *)

Tolerance == 6          \* compare_faces(..., tolerance=0.6), line 68

Encodings == 0..MaxEnc
Abs(x) == IF x < 0 THEN -x ELSE x
face_distance(a, b) == 4 * Abs(a - b)

\* face_recognition.compare_faces: one boolean per known encoding
compare_faces(known_face_encodings, face_encoding) ==
    [i \in 1..Len(known_face_encodings) |->
        face_distance(known_face_encodings[i], face_encoding) <= Tolerance]

\* An image, as the face library sees it: it cannot be decoded ("bad"), or
\* it decodes and holds the faces whose encodings are listed in detection
\* order.
Image(decodes, faces) == [decodes |-> decodes, faces |-> faces]
BadImage == Image(FALSE, <<>>)

\* avatars: only the first face of a reference image is used (line 49)
Avatars == {BadImage} \cup {Image(TRUE, f) : f \in SeqsUpTo(Encodings, 1)}
Probes  == {BadImage} \cup {Image(TRUE, f) : f \in SeqsUpTo(Encodings, MaxProbe)}

PersonIds == {1, 2}
Names == {"Kate", "Tom"}
KnownFacePayload == [person_id : PersonIds, name : Names, avatar_base_64 : Avatars]

RecognitionRequest ==
    [photo_to_check_base64 : Probes, known_faces : SeqsUpTo(KnownFacePayload, MaxKnown)]

\* load_image_file + face_encodings: the faces of an image, or an exception
\* when the bytes are not an image
face_encodings(image) ==
    IF image.decodes THEN Return(image.faces) ELSE Raise("UnidentifiedImageError")

\* no handler around the loading of a reference
AvatarCatches_none(e) == FALSE

\* line 51: except Exception, inside the loop over the known faces
AvatarCatches(e) == TRUE

\* lines 44-50: a reference is retained when it decodes and shows a face
Retained(person_data) ==
    LET avatar_encodings == face_encodings(person_data.avatar_base_64)
    IN  avatar_encodings.kind = "return" /\ Len(avatar_encodings.value) > 0

\* an avatar whose exception leaves the loop of lines 43-52
AvatarEscapes(person_data) ==
    LET avatar_encodings == face_encodings(person_data.avatar_base_64)
    IN  avatar_encodings.kind = "raise" /\ ~AvatarCatches(avatar_encodings.value)

\* lines 41-52: known_face_encodings and known_face_metadata, index by index
known_face_encodings(payload) ==
    LET kept == SelectSeq(payload, Retained)
    IN  [i \in 1..Len(kept) |-> kept[i].avatar_base_64.faces[1]]

known_face_metadata(payload) ==
    LET kept == SelectSeq(payload, Retained)
    IN  [i \in 1..Len(kept) |-> [person_id |-> kept[i].person_id, name |-> kept[i].name]]

\* the last match instead of the first
FirstTrue_last(matches) == CHOOSE i \in 1..Len(matches) : matches[i] /\ \A j \in (i+1)..Len(matches) : ~matches[j]

\* matches.index(True), line 70
FirstTrue(matches) == CHOOSE i \in 1..Len(matches) : matches[i] /\ \A j \in 1..(i-1) : ~matches[j]

\* an iteration that records every match
RecognizeStep_noDedupe(recognized_people, encs, meta, face_encoding) ==
    LET matches == compare_faces(encs, face_encoding)
    IN  IF \E i \in 1..Len(matches) : matches[i]
            THEN Append(recognized_people, meta[FirstTrue(matches)])
            ELSE recognized_people

\* lines 68-74: one iteration of the loop over the probe faces
RecognizeStep(recognized_people, encs, meta, face_encoding) ==
    LET matches == compare_faces(encs, face_encoding)
    IN  IF \E i \in 1..Len(matches) : matches[i]
            THEN LET match_metadata == meta[FirstTrue(matches)]
                 IN  IF ~\E k \in 1..Len(recognized_people) :
                              recognized_people[k].person_id = match_metadata.person_id
                         THEN Append(recognized_people, match_metadata)
                         ELSE recognized_people
            ELSE recognized_people

\* lines 66-75: the loop over the first n probe faces
RECURSIVE RecognizeLoop(_, _, _, _)
RecognizeLoop(unknown_face_encodings, encs, meta, n) ==
    IF n = 0 THEN << >>
    ELSE RecognizeStep(RecognizeLoop(unknown_face_encodings, encs, meta, n - 1),
                       encs, meta, unknown_face_encodings[n])

\* line 62: except Exception, around the processing of the probe
ProbeCatches(e) == TRUE

\* identify_people, lines 35-75
identify_people(ready, photo, payload) ==
    IF ~ready THEN Raise("Face Recognition service is not ready.")
    ELSE IF Len(payload) = 0 THEN Return(<< >>)
    ELSE IF \E i \in 1..Len(payload) : AvatarEscapes(payload[i])
        THEN Raise("UnidentifiedImageError")
    ELSE LET encs == known_face_encodings(payload)
             meta == known_face_metadata(payload)
             unknown_face_encodings == face_encodings(photo)
         IN  IF Len(encs) = 0 THEN Return(<< >>)
             ELSE IF unknown_face_encodings.kind = "raise"
                 THEN (IF ProbeCatches(unknown_face_encodings.value)
                          THEN Return(<< >>) ELSE unknown_face_encodings)
             ELSE Return(RecognizeLoop(unknown_face_encodings.value, encs, meta,
                                       Len(unknown_face_encodings.value)))

\* the calls of the face library: none before line 46, which runs once the
\* service is ready and the payload is not empty
FaceInvocations(ready, payload) ==
    IF ready /\ Len(payload) > 0 THEN << "face_recognition" >> ELSE <<>>

\* a direct call of FaceRecognitionService.identify_people
call_identify_people ==
    /\ phase = "idle"
    /\ services["face"]
    /\ \E req \in RecognitionRequest :
         /\ request' = req
         /\ result' = identify_people(is_ready["face"], req.photo_to_check_base64, req.known_faces)
         /\ invocations' = FaceInvocations(is_ready["face"], req.known_faces)
    /\ op' = "identify_people"
    /\ phase' = "done"
    /\ is_ready' = AfterCall(is_ready, "face", result')
    /\ UNCHANGED <<outcome, prompt, response>>
    /\ UNCHANGED <<services, loads, files, loop, flights>>

\* app.py POST /recognize-people, lines 242-259, for requests R
recognize_people_in_photo_on(R) ==
    /\ phase = "idle"
    /\ \E req \in R :
         /\ request' = req
         /\ IF Unavailable("face")
               THEN /\ response' = Http(503, "Face recognition service is not available.")
                    /\ result' = NoValue
                    /\ invocations' = <<>>
               ELSE LET r == identify_people(is_ready["face"], req.photo_to_check_base64,
                                             req.known_faces)
                    IN  /\ result' = r
                        /\ invocations' = FaceInvocations(is_ready["face"], req.known_faces)
                        /\ response' = IF r.kind = "return" THEN Http(200, r.value)
                                                            ELSE Http(500, r.value)
    /\ op' = "recognize_people_in_photo"
    /\ phase' = "done"
    /\ is_ready' = AfterCall(is_ready, "face", result')
    /\ UNCHANGED <<outcome, prompt>>
    /\ UNCHANGED <<services, loads, files, loop, flights>>

recognize_people_in_photo == recognize_people_in_photo_on(RecognitionRequest)

InitFace == InitWith({"face"}, NoValue)
NextFace == recognize_people_in_photo \/ call_identify_people \/ Return_
SpecFace == InitFace /\ [][NextFace]_vars

----------------------------------------------------------------------------
(* VisionService.generate_caption, vision_service.py lines 55-81 *)

\* the bytes of an upload: they decode as an image (or as audio) or not
Upload(decodes) == [decodes |-> decodes]
Uploads == {Upload(TRUE), Upload(FALSE)}

\* what BLIP decodes: a caption, with or without the "arafed image of" prefix
RawCaption(artifact, text) == [artifact |-> artifact, text |-> text, capitalized |-> FALSE]
VisionOutcomes ==
    {ModelRaises, ModelReplies(RawCaption(TRUE, "a dog on a beach")),
     ModelReplies(RawCaption(FALSE, "a dog on a beach"))}

\* lines 71-74: the prefix is stripped and the first letter capitalized
CleanCaption(caption) == [artifact |-> FALSE, text |-> caption.text, capitalized |-> TRUE]

generate_caption(ready, image, out) ==
    IF ~ready THEN [result |-> Raise("Vision service is not ready."), invocations |-> <<>>]
    ELSE IF ~image.decodes
        THEN [result |-> Raise("UnidentifiedImageError"), invocations |-> <<>>]
    ELSE IF out.call = "raise"
        THEN [result |-> Raise("RuntimeError"), invocations |-> << "blip" >>]
    ELSE [result |-> Return(CleanCaption(out.value)), invocations |-> << "blip" >>]

\* app.py POST /describe-image, lines 209-220; an exception leaves the
\* handler and reaches global_exception_handler, lines 262-268
describe_image ==
    /\ phase = "idle"
    /\ \E image \in Uploads :
         /\ request' = image
         /\ IF Unavailable("vision")
               THEN /\ response' = Http(503, "Image captioning service is not available.")
                    /\ outcome' = NoCall
                    /\ invocations' = <<>>
                    /\ result' = NoValue
               ELSE \E out \in VisionOutcomes :
                      LET g == generate_caption(is_ready["vision"], image, out)
                      IN  /\ outcome' = out
                          /\ invocations' = g.invocations
                          /\ result' = g.result
                          /\ response' = IF g.result.kind = "return"
                                            THEN Http(200, [caption |-> g.result.value])
                                            ELSE Http(500, g.result.value)
    /\ op' = "describe_image"
    /\ phase' = "done"
    /\ is_ready' = AfterCall(is_ready, "vision", result')
    /\ UNCHANGED <<prompt, services, loads, files, loop, flights>>

----------------------------------------------------------------------------
(* EmbeddingService.generate_embedding, embedding_service.py lines 41-63 *)

EmbeddingOutcomes == {ModelRaises, ModelReplies([vector |-> "unit length"])}

generate_embedding_(ready, text, out) ==
    IF ~ready THEN [result |-> Raise("Embedding service is not available."), invocations |-> <<>>]
    ELSE IF out.call = "raise"
        THEN [result |-> Raise("RuntimeError"), invocations |-> << "nomic" >>]
    ELSE [result |-> Return(out.value), invocations |-> << "nomic" >>]

\* app.py POST /generate-embedding, lines 165-179
generate_embedding ==
    /\ phase = "idle"
    /\ \E text \in {"a day at the lake"} :
         /\ request' = text
         /\ IF Unavailable("embedding")
               THEN /\ response' = Http(503, "Text embedding service is not available.")
                    /\ outcome' = NoCall
                    /\ invocations' = <<>>
                    /\ result' = NoValue
               ELSE \E out \in EmbeddingOutcomes :
                      LET g == generate_embedding_(is_ready["embedding"], text, out)
                      IN  /\ outcome' = out
                          /\ invocations' = g.invocations
                          /\ result' = g.result
                          /\ response' = IF g.result.kind = "return"
                                            THEN Http(200, g.result.value)
                                            ELSE Http(500, g.result.value)
    /\ op' = "generate_embedding"
    /\ phase' = "done"
    /\ is_ready' = AfterCall(is_ready, "embedding", result')
    /\ UNCHANGED <<prompt, services, loads, files, loop, flights>>

----------------------------------------------------------------------------
(* Temporary files *)

\* tempfile.NamedTemporaryFile(delete=False): a name that is not in use
FreshName(fs) == CHOOSE n \in TempNames : n \notin fs
HasFreshName(fs) == \E n \in TempNames : n \notin fs

\* the step of a call at which the outside world fails, if any
Fails(step) == [call |-> IF step = "none" THEN "ok" ELSE "raise", step |-> step]

----------------------------------------------------------------------------
(* TtsService.generate_speech, tts_service.py lines 34-61 *)

TtsOutcomes == {Fails(st) : st \in {"none", "create", "synthesis", "read", "duration"}}

\* a deletion on the success path only
TtsCleanup_onSuccess(fs, path, r) == IF r.kind = "return" THEN fs \ {path} ELSE fs

\* lines 56-58: finally: if os.path.exists(path): os.unlink(path)
TtsCleanup(fs, path, r) == fs \ {path}

\* lines 46-55: the inner try block, with the temporary file in place
TtsTry(out) ==
    IF out.step = "synthesis" THEN Raise("RuntimeError")
    ELSE IF out.step = "read" THEN Raise("OSError")
    ELSE IF out.step = "duration" THEN Raise("LibsndfileError")
    ELSE Return("audio bytes and duration")

generate_speech_(ready, fs, out) ==
    IF ~ready
        THEN [result |-> Raise("TTS service is not available."), files |-> fs, invocations |-> <<>>]
    ELSE IF out.step = "create"
        THEN [result |-> Raise("OSError"), files |-> fs, invocations |-> <<>>]
    ELSE LET path == FreshName(fs)
             r == TtsTry(out)
         IN  [result |-> r, files |-> TtsCleanup(fs \cup {path}, path, r),
              invocations |-> << "coqui" >>]

\* app.py POST /generate-speech, lines 182-206
generate_speech ==
    /\ phase = "idle"
    /\ HasFreshName(files)
    /\ \E text \in {"Good morning", "Time for your walk"} :
         /\ request' = text
         /\ IF Unavailable("tts")
               THEN /\ response' = Http(503, "Text-to-Speech service is not available.")
                    /\ outcome' = NoCall
                    /\ invocations' = <<>>
                    /\ result' = NoValue
                    /\ files' = files
               ELSE \E out \in TtsOutcomes :
                      LET g == generate_speech_(is_ready["tts"], files, out)
                      IN  /\ outcome' = out
                          /\ invocations' = g.invocations
                          /\ result' = g.result
                          /\ files' = g.files
                          /\ response' = IF g.result.kind = "return"
                                            THEN Http(200, g.result.value)
                                            ELSE Http(500, g.result.value)
    /\ op' = "generate_speech"
    /\ phase' = "done"
    /\ is_ready' = AfterCall(is_ready, "tts", result')
    /\ UNCHANGED <<prompt, services, loads, loop, flights>>

----------------------------------------------------------------------------
(* TranscriptionService.transcribe_audio, transcription_service.py 47-70 *)

\* audio_data: Union[str, bytes]
AudioBytes == [kind |-> "bytes", path |-> << >>]
AudioPath  == [kind |-> "str", path |-> CallerFile]

TranscriptionOutcomes(audio_data) ==
    IF audio_data.kind = "bytes"
        THEN {Fails(st) : st \in {"none", "create", "write", "pipe"}}
        ELSE {Fails(st) : st \in {"none", "pipe"}}

Transcript == [text |-> "hello there", chunks |-> << "hello", "there" >>]

\* lines 53-60, a bytes buffer: the file is created and written inside the
\* with block; only the pipeline call is inside try/finally os.unlink
TranscribeBytes(fs, out) ==
    IF out.step = "create" THEN [result |-> Raise("OSError"), files |-> fs, invocations |-> <<>>]
    ELSE LET path == FreshName(fs)
         IN  IF out.step = "write"
                 THEN [result |-> Raise("OSError"), files |-> fs \cup {path},
                       invocations |-> <<>>]
                 ELSE [result |-> IF out.step = "pipe" THEN Raise("RuntimeError")
                                                       ELSE Return(Transcript),
                       files |-> (fs \cup {path}) \ {path},
                       invocations |-> << "whisper" >>]

\* lines 61-62, a path
TranscribePath(fs, out) ==
    [result |-> IF out.step = "pipe" THEN Raise("RuntimeError") ELSE Return(Transcript),
     files |-> fs, invocations |-> << "whisper" >>]

transcribe_audio_(ready, audio_data, fs, out) ==
    IF ~ready
        THEN [result |-> Raise("Transcription service is not ready."), files |-> fs,
              invocations |-> <<>>]
    ELSE IF audio_data.kind = "bytes" THEN TranscribeBytes(fs, out)
    ELSE TranscribePath(fs, out)

\* a direct call of TranscriptionService.transcribe_audio
call_transcribe_audio ==
    /\ phase = "idle"
    /\ services["transcription"]
    /\ HasFreshName(files)
    /\ \E audio_data \in {AudioBytes, AudioPath} :
       \E out \in IF is_ready["transcription"] THEN TranscriptionOutcomes(audio_data)
                                               ELSE {NoCall} :
         LET g == transcribe_audio_(is_ready["transcription"], audio_data, files, out)
         IN  /\ request' = audio_data
             /\ outcome' = out
             /\ invocations' = g.invocations
             /\ result' = g.result
             /\ files' = g.files
    /\ op' = "transcribe_audio"
    /\ phase' = "done"
    /\ is_ready' = AfterCall(is_ready, "transcription", result')
    /\ UNCHANGED <<prompt, response, services, loads, loop, flights>>

\* app.py POST /transcribe-audio, lines 223-239: the upload is passed as
\* bytes; an exception reaches global_exception_handler
transcribe_audio ==
    /\ phase = "idle"
    /\ HasFreshName(files)
    /\ request' = AudioBytes
    /\ IF Unavailable("transcription")
          THEN /\ response' = Http(503, "Audio transcription service is not available.")
               /\ outcome' = NoCall
               /\ invocations' = <<>>
               /\ result' = NoValue
               /\ files' = files
          ELSE \E out \in TranscriptionOutcomes(AudioBytes) :
                 LET g == transcribe_audio_(is_ready["transcription"], AudioBytes, files, out)
                 IN  /\ outcome' = out
                     /\ invocations' = g.invocations
                     /\ result' = g.result
                     /\ files' = g.files
                     /\ response' = IF g.result.kind = "return"
                                       THEN Http(200, g.result.value)
                                       ELSE Http(500, g.result.value)
    /\ op' = "transcribe_audio_endpoint"
    /\ phase' = "done"
    /\ is_ready' = AfterCall(is_ready, "transcription", result')
    /\ UNCHANGED <<prompt, services, loads, loop, flights>>

InitFiles == InitWith({"tts", "transcription"}, NoValue)
NextFiles == generate_speech \/ transcribe_audio \/ call_transcribe_audio \/ Return_
SpecFiles == InitFiles /\ [][NextFiles]_vars

----------------------------------------------------------------------------
(* The application: startup, health check and the seven endpoints *)

\* app.py lines 49-56: the globals are None before lifespan runs
InitApp ==
    /\ loads \in [Components -> BOOLEAN]
    /\ services = [c \in Components |-> FALSE]
    /\ is_ready = [c \in Components |-> FALSE]
    /\ phase = "starting"
    /\ op = "none"
    /\ request = NoValue
    /\ outcome = NoCall
    /\ invocations = <<>>
    /\ prompt = <<>>
    /\ result = NoValue
    /\ response = NoValue
    /\ files = {CallerFile}
    /\ loop = 0
    /\ flights = [r \in Slots |-> NoFlight]

\* app.py lifespan, lines 59-84, up to the yield
lifespan ==
    /\ phase = "starting"
    /\ services' = lifespan_services(loads)
    /\ is_ready' = lifespan_is_ready(loads)
    /\ phase' = "idle"
    /\ UNCHANGED <<op, request, outcome, invocations, prompt, result, response,
                   loads, files, loop, flights>>

\* the keys of the health report, app.py lines 100-108
HealthName(c) ==
    CASE c = "chat"          -> "chat_conversation"
      [] c = "analysis"      -> "proactive_analysis"
      [] c = "vision"        -> "blip_vision"
      [] c = "transcription" -> "whisper_transcription"
      [] c = "face"          -> "face_recognition"
      [] c = "embedding"     -> "nomic_embedding"
      [] c = "tts"           -> "gtts_tts"
HealthNames == {HealthName(c) : c \in Components}
ComponentOf(n) == CHOOSE c \in Components : HealthName(c) = n

\* a report that calls is_ready() on a global that is None
ServiceStatus_unguarded(c) ==
    IF services[c] THEN Return(is_ready[c]) ELSE Raise("AttributeError")

\* service.is_ready() if service else False
ServiceStatus(c) == IF services[c] THEN Return(is_ready[c]) ELSE Return(FALSE)

\* app.py GET /health, lines 97-116
health_check ==
    /\ phase = "idle"
    /\ LET services_status == [n \in HealthNames |-> ServiceStatus(ComponentOf(n))]
           raised == {n \in HealthNames : services_status[n].kind = "raise"}
           all_healthy == \A n \in HealthNames : services_status[n].value
       IN  IF raised # {}
              THEN /\ result' = Raise("AttributeError")
                   /\ response' = Http(500, "AttributeError")
              ELSE /\ result' = NoValue
                   /\ response' =
                        Http(200, [status |-> IF all_healthy THEN "healthy" ELSE "degraded",
                                   services |-> [n \in HealthNames |-> services_status[n].value]])
    /\ op' = "health_check"
    /\ phase' = "done"
    /\ request' = NoValue
    /\ UNCHANGED <<outcome, invocations, prompt, is_ready, services, loads, files, loop, flights>>

\* one reply of each kind for every model
ChatOutcomesBrief ==
    {ModelRaises, ModelGarbles,
     ModelReplies(ChatJson("dict", JStr("narrative"), JStr("Hi"), JAbsent, JAbsent))}
AnalysisOutcomesBrief ==
    {ModelRaises, ModelGarbles,
     ModelReplies(AnalysisJson("dict", JStr("birthday"), JList(<<>>), JNum(MaxNum),
                               JStr("A family holiday.")))}
RecognitionRequestBrief ==
    [photo_to_check_base64 : {BadImage, Image(TRUE, <<>>), Image(TRUE, << 0 >>)},
     known_faces : SeqsUpTo({[person_id |-> 1, name |-> "Kate", avatar_base_64 |-> a] :
                               a \in {BadImage, Image(TRUE, << 0 >>)}}, 1)]

NextApp ==
    \/ lifespan
    \/ health_check
    \/ chat_on(ChatRequest(0), ChatOutcomesBrief)
    \/ analyze_memory_endpoint_on(AnalysisOutcomesBrief)
    \/ recognize_people_in_photo_on(RecognitionRequestBrief)
    \/ describe_image
    \/ transcribe_audio
    \/ generate_speech
    \/ generate_embedding
    \/ Return_
SpecApp == InitApp /\ [][NextApp]_vars

----------------------------------------------------------------------------
(* The event loop: which request the loop thread is running *)

\* loop = 0: the loop thread is free to take a request or resume a handler;
\* loop = r: it is running the handler of the request in slot r.
\* flights[r].at: "handler" before the model call, "model" during it.

ModelEndpoints ==
    {"chat", "analyze_memory", "recognize_people_in_photo", "generate_embedding",
     "generate_speech", "describe_image", "transcribe_audio"}

\* app.py lines 175, 194, 219, 235: await run_in_threadpool(service.method, ...)
\* the other three await an async def whose body calls the model directly
\* (chat_service.py 142, proactive_analysis_service.py 72,
\* face_recognition_service.py 46-68)
InThreadpool(e) ==
    e \in {"generate_embedding", "generate_speech", "describe_image", "transcribe_audio"}

\* the loop thread takes a request and starts its handler
accept ==
    /\ loop = 0
    /\ \E r \in Slots : \E e \in ModelEndpoints :
         /\ flights[r] = NoFlight
         /\ flights' = [flights EXCEPT ![r] = [op |-> e, at |-> "handler"]]
         /\ loop' = r
    /\ UNCHANGED <<phase, op, request, outcome, invocations, prompt, result, response,
                   is_ready, services, loads, files>>

\* the handler reaches the model call: a threadpool call suspends the
\* handler and frees the loop thread, a direct call keeps it
invoke ==
    /\ loop # 0
    /\ flights[loop].at = "handler"
    /\ flights' = [flights EXCEPT ![loop].at = "model"]
    /\ loop' = IF InThreadpool(flights[loop].op) THEN 0 ELSE loop
    /\ UNCHANGED <<phase, op, request, outcome, invocations, prompt, result, response,
                   is_ready, services, loads, files>>

\* the model call ends; the loop thread, once free, resumes the handler and
\* sends the response
complete ==
    /\ \E r \in Slots :
         /\ flights[r].at = "model"
         /\ loop \in {0, r}
         /\ flights' = [flights EXCEPT ![r] = NoFlight]
         /\ loop' = 0
    /\ UNCHANGED <<phase, op, request, outcome, invocations, prompt, result, response,
                   is_ready, services, loads, files>>

InitLoop == InitWith({}, NoValue)
NextLoop == accept \/ invoke \/ complete
SpecLoop == InitLoop /\ [][NextLoop]_vars

----------------------------------------------------------------------------
(* Properties of ChatService.generate_response *)

ChatCall == phase = "done" /\ op \in {"generate_response", "chat"} /\ is_ready["chat"]

\* the reply parsed as a JSON object
ReplyIsObject == outcome.call = "ok" /\ outcome.valid /\ outcome.value.k = "dict"

NarrativeReply ==
    /\ ReplyIsObject
    /\ outcome.value.response_type.k = "str"
    /\ outcome.value.response_type.s = "narrative"
    /\ outcome.value.message.k = "str"

WellFormedScene(e) == e.isobj /\ e.memory_id.k = "str" /\ e.narration.k = "str"

CinematicReply ==
    /\ ReplyIsObject
    /\ outcome.value.response_type.k = "str"
    /\ outcome.value.response_type.s = "cinematic_show"
    /\ outcome.value.show_title.k = "str"
    /\ outcome.value.scenes.k = "list"
    /\ \A i \in 1..Len(outcome.value.scenes.l) : WellFormedScene(outcome.value.scenes.l[i])

\* C1: a ready ChatService never raises to the caller; a well-formed
\* narrative reply yields a narrative result with the same message, a
\* well-formed cinematic reply yields a show with the same title and the same
\* scenes in the same order, and every other outcome of the model call yields
\* the fixed apology narrative.
C1_GenerateResponseTotal ==
    ChatCall =>
        /\ result.kind = "return"
        /\ NarrativeReply =>
             /\ result.value.response_type = "narrative"
             /\ result.value.message = outcome.value.message.s
        /\ CinematicReply =>
             /\ result.value.response_type = "cinematic_show"
             /\ result.value.show_title = outcome.value.show_title.s
             /\ Len(result.value.scenes) = Len(outcome.value.scenes.l)
             /\ \A i \in 1..Len(result.value.scenes) :
                  /\ result.value.scenes[i].memory_id = outcome.value.scenes.l[i].memory_id.s
                  /\ result.value.scenes[i].narration = outcome.value.scenes.l[i].narration.s
        /\ (~NarrativeReply /\ ~CinematicReply) =>
             /\ result.value.response_type = "narrative"
             /\ result.value.message = "I'm sorry, I had a little trouble organizing my thoughts."

\* a narrative reply whose message is not a string is answered with the apology
C1_Witness ==
    /\ ChatCall
    /\ ReplyIsObject
    /\ outcome.value.response_type = JStr("narrative")
    /\ outcome.value.message.k = "num"
    /\ result.kind = "return"
    /\ result.value.message = "I'm sorry, I had a little trouble organizing my thoughts."

\* C2: a /chat request and an /analyze-memory request invoke the chat model
\* at most once, whatever the outcome of the invocation.
C2_AtMostOneInvocation ==
    (phase = "done" /\ op \in {"chat", "analyze_memory_endpoint"}) => Len(invocations) <= 1

\* a /chat request whose model call raised, after exactly one invocation
C2_Witness ==
    /\ phase = "done"
    /\ op = "chat"
    /\ outcome.call = "raise"
    /\ Len(invocations) = 1

----------------------------------------------------------------------------
(* Properties of ChatService._construct_prompt *)

PromptBuilt == phase = "done" /\ op = "_construct_prompt"

\* lines 64-66 and 112-118: the lines that tell the model to use the
\* cinematic format or to create scenes
CinematicInstructions == {"use_cinematic"}
SceneInstructions ==
    {"create_exactly_scenes", "include_all_scenes", "must_create_scenes", "scene", "not_fewer_scenes"}

Instructs(p, kinds) == \E i \in 1..Len(p) : p[i].k \in kinds

PhotoOrVideo(mem) == mem.type = "photo" \/ mem.type = "video"

\* C3: a casual request gets a prompt with no instruction to use the
\* cinematic format and no instruction to create scenes, whatever memories
\* it carries.
C3_CasualNarrativeOnly ==
    (PromptBuilt /\ request.conversation_type = "casual") =>
        /\ ~Instructs(prompt, CinematicInstructions)
        /\ ~Instructs(prompt, SceneInstructions)

\* the scene instruction expected for the i-th visual memory
ExpectedScene(visual, i) ==
    [k |-> "scene", n |-> i, id |-> visual[i].memory_id, ty |-> visual[i].type,
     short |-> (visual[i].type = "video")]

IsSceneLine(line) == line.k = "scene"

\* C4: when the mode is not casual, the query is not the override literal and
\* n >= 1 memories are photos or videos, the prompt holds exactly n scene
\* instructions, the i-th naming the identifier and the category of the i-th
\* visual memory in the order supplied; a video's instruction also asks for
\* short narration and no other memory gets one.
C4_OneScenePerVisualMemory ==
    LET visual == SelectSeq(request.context_memories, PhotoOrVideo)
        scenes == SelectSeq(prompt, IsSceneLine)
    IN  (/\ PromptBuilt
         /\ request.conversation_type # "casual"
         /\ request.query # OverrideQuery
         /\ Len(visual) >= 1) =>
            /\ Len(scenes) = Len(visual)
            /\ \A i \in 1..Len(visual) : scenes[i] = ExpectedScene(visual, i)

\* a text memory followed by a video: one scene, for the video, kept short
C4_Witness ==
    /\ PromptBuilt
    /\ request.conversation_type = "memory_based"
    /\ request.query # OverrideQuery
    /\ Len(request.context_memories) = 2
    /\ request.context_memories[1].type = "text"
    /\ request.context_memories[2].type = "video"
    /\ Len(SelectSeq(prompt, IsSceneLine)) = 1

\* C5: a request whose query is the override literal gets a narrative-only
\* prompt, whatever its mode and memories: no instruction to use the
\* cinematic format, no instruction to create scenes.
C5_OverrideNarrativeOnly ==
    (PromptBuilt /\ request.query = OverrideQuery) =>
        /\ ~Instructs(prompt, CinematicInstructions)
        /\ ~Instructs(prompt, SceneInstructions)

----------------------------------------------------------------------------
(* Properties of ProactiveAnalysisService and of POST /analyze-memory *)

AnalysisCall == phase = "done" /\ op \in {"analyze_memory", "analyze_memory_endpoint"}

DefaultAnalysis ==
    [anniversary_type |-> JNull, seasonal_tags |-> << >>, proactive_score |-> Fin(0),
     reasoning |-> JStr("Analysis failed, using default values.")]

\* a proactive_score value float() rejects
Uncoercible(v) == v.k \in {"null", "list", "dict"} \/ (v.k = "str" /\ v.s \notin {"3", "9"})

\* C6: in every analysis result proactive_score is a number in [0, 5] and
\* seasonal_tags has at most 3 elements, whatever the model replied; a
\* seasonal_tags value that is not a list becomes the empty list and a score
\* that cannot be coerced to a number becomes 0.
C6_ScoreAndTagsBounded ==
    (AnalysisCall /\ result.kind = "return") =>
        /\ result.value.proactive_score.k = "fin"
        /\ result.value.proactive_score.n >= 0
        /\ result.value.proactive_score.n <= 5
        /\ Len(result.value.seasonal_tags) <= 3
        /\ (ReplyIsObject /\ outcome.value.seasonal_tags.k # "list") =>
              result.value.seasonal_tags = << >>
        /\ (ReplyIsObject /\ Uncoercible(outcome.value.proactive_score)) =>
              result.value.proactive_score = Fin(0)

\* a reply with a score above 5 and more than 3 tags, clamped and truncated
C6_Witness ==
    /\ AnalysisCall
    /\ ReplyIsObject
    /\ outcome.value.proactive_score.k = "num"
    /\ outcome.value.proactive_score.n > 5
    /\ outcome.value.seasonal_tags.k = "list"
    /\ Len(outcome.value.seasonal_tags.l) > 3
    /\ result.kind = "return"
    /\ result.value.proactive_score = Fin(5)
    /\ Len(result.value.seasonal_tags) = 3

\* C7: analyze_memory never propagates an error; when the service is not
\* ready, the model call raises, the reply is not JSON or is JSON that is
\* not an object, it returns exactly the fixed default result.
C7_AnalyzeNeverRaises ==
    AnalysisCall =>
        /\ (op = "analyze_memory" \/ is_ready["analysis"]) => result.kind = "return"
        /\ (/\ op = "analyze_memory" \/ is_ready["analysis"]
            /\ \/ ~is_ready["analysis"]
               \/ outcome.call = "raise"
               \/ (outcome.call = "ok" /\ ~outcome.valid)
               \/ (outcome.call = "ok" /\ outcome.valid /\ outcome.value.k # "dict")) =>
              result.value = DefaultAnalysis

\* a reply that is a JSON list is answered with the default result
C7_Witness ==
    /\ AnalysisCall
    /\ outcome.call = "ok"
    /\ outcome.valid
    /\ outcome.value.k = "list"
    /\ result.kind = "return"
    /\ result.value = DefaultAnalysis

\* C8: with a ready component, POST /analyze-memory answers every model
\* output, malformed or not, with a result of the analysis shape and never
\* with an error response.
C8_MalformedOutputNeverAnError ==
    (phase = "done" /\ op = "analyze_memory_endpoint" /\ is_ready["analysis"]) =>
        response.status = 200

----------------------------------------------------------------------------
(* Properties of FaceRecognitionService.identify_people *)

FaceCall ==
    phase = "done" /\ op \in {"identify_people", "recognize_people_in_photo"} /\ is_ready["face"]

\* the reference of known face i shows a face
Encodable(known, i) == known[i].avatar_base_64.decodes /\ Len(known[i].avatar_base_64.faces) > 0

\* the reference of known face i matches probe face j within the tolerance
Matches(known, probe, i, j) ==
    /\ Encodable(known, i)
    /\ face_distance(known[i].avatar_base_64.faces[1], probe.faces[j]) <= Tolerance

ReturnedIds == {result.value[k].person_id : k \in 1..Len(result.value)}

\* the identities whose reference matches some probe face
MatchingIds(known, probe) ==
    {known[i].person_id : i \in {i \in 1..Len(known) : \E j \in 1..Len(probe.faces) : Matches(known, probe, i, j)}}

\* the first reference, in the order supplied, that matches probe face j
FirstMatch(known, probe, j) ==
    CHOOSE i \in 1..Len(known) :
        Matches(known, probe, i, j) /\ \A h \in 1..(i - 1) : ~Matches(known, probe, h, j)

\* the identities of the first matching reference of every probe face
FirstMatchIds(known, probe) ==
    {known[FirstMatch(known, probe, j)].person_id :
        j \in {j \in 1..Len(probe.faces) : \E i \in 1..Len(known) : Matches(known, probe, i, j)}}

\* C9 as stated: identify_people returns exactly the identities whose
\* reference matches at least one face detected in the probe, including when
\* several references match the same probe face.
C9_ReturnsEveryMatchingIdentity ==
    (FaceCall /\ result.kind = "return") =>
        ReturnedIds = MatchingIds(request.known_faces, request.photo_to_check_base64)

\* C9 as amended: every returned identity has a reference that matches some
\* probe face, and the identities returned are exactly those of the first
\* matching reference, in the order supplied, of each probe face that matches
\* any reference.
C9_ReturnsFirstMatchingIdentities ==
    (FaceCall /\ result.kind = "return") =>
        /\ ReturnedIds \subseteq MatchingIds(request.known_faces, request.photo_to_check_base64)
        /\ ReturnedIds = FirstMatchIds(request.known_faces, request.photo_to_check_base64)

\* two references of different people match the one probe face; only the
\* first is returned
C9_Witness ==
    /\ FaceCall
    /\ result.kind = "return"
    /\ Len(request.known_faces) = 2
    /\ request.known_faces[1].person_id # request.known_faces[2].person_id
    /\ Len(request.photo_to_check_base64.faces) = 1
    /\ Matches(request.known_faces, request.photo_to_check_base64, 1, 1)
    /\ Matches(request.known_faces, request.photo_to_check_base64, 2, 1)
    /\ ReturnedIds = {request.known_faces[1].person_id}

\* C10: a ready component returns the empty list, and no error, when the
\* known-face list is empty, when no reference shows a detectable face
\* (an undecodable reference is skipped), or when no face is detected in the
\* probe.
C10_EmptyResultNotError ==
    (/\ FaceCall
     /\ \/ Len(request.known_faces) = 0
        \/ \A i \in 1..Len(request.known_faces) : ~Encodable(request.known_faces, i)
        \/ Len(request.photo_to_check_base64.faces) = 0) =>
        /\ result = [kind |-> "return", value |-> << >>]
        /\ op = "recognize_people_in_photo" => response = [status |-> 200, body |-> << >>]

\* an undecodable reference and a reference without a face: empty result
C10_Witness ==
    /\ FaceCall
    /\ Len(request.known_faces) = 2
    /\ ~request.known_faces[1].avatar_base_64.decodes
    /\ request.known_faces[2].avatar_base_64.decodes
    /\ Len(request.known_faces[2].avatar_base_64.faces) = 0
    /\ Len(request.photo_to_check_base64.faces) > 0
    /\ result = [kind |-> "return", value |-> << >>]

----------------------------------------------------------------------------
(* Properties of the application: availability, health, startup *)

\* the handler of the endpoint that is backed by component c
EndpointOf(c) ==
    CASE c = "chat"          -> "chat"
      [] c = "analysis"      -> "analyze_memory_endpoint"
      [] c = "vision"        -> "describe_image"
      [] c = "transcription" -> "transcribe_audio_endpoint"
      [] c = "face"          -> "recognize_people_in_photo"
      [] c = "embedding"     -> "generate_embedding"
      [] c = "tts"           -> "generate_speech"

Answered(c) == phase = "done" /\ op = EndpointOf(c)
ComponentReady(c) == services[c] /\ is_ready[c]

\* C11: each of the seven model-backed endpoints answers 503 and does not
\* invoke its model when its component is absent or reports not ready.
C11_UnavailableIs503 ==
    \A c \in Components :
        (Answered(c) /\ ~ComponentReady(c)) =>
            /\ response.status = 503
            /\ invocations = <<>>
            /\ outcome.call = "none"

\* a component that was constructed but whose model did not load
C11_Witness ==
    /\ Answered("transcription")
    /\ services["transcription"]
    /\ ~is_ready["transcription"]
    /\ response.status = 503

\* C12: the health check answers 200 whatever the state of the components,
\* reports one boolean for each of the seven components, the readiness of
\* that component, and says "healthy" exactly when all seven are ready.
C12_HealthNeverFails ==
    (phase = "done" /\ op = "health_check") =>
        /\ response.status = 200
        /\ DOMAIN response.body.services =
              {"chat_conversation", "proactive_analysis", "blip_vision",
               "whisper_transcription", "face_recognition", "nomic_embedding",
               "gtts_tts"}
        /\ \A c \in Components :
              response.body.services[HealthName(c)] = ComponentReady(c)
        /\ response.body.status \in {"healthy", "degraded"}
        /\ response.body.status = "healthy" <=> \A c \in Components : ComponentReady(c)

\* a health check while a component is None and another is not ready
C12_Witness ==
    /\ phase = "done" /\ op = "health_check"
    /\ ~services["tts"]
    /\ services["face"] /\ ~is_ready["face"]
    /\ ComponentReady("chat")
    /\ response.status = 200
    /\ response.body.status = "degraded"

\* C13: while the model call of a request is in progress the loop thread is
\* not held by that request, for every model-backed endpoint: it can take
\* and start another request.
C13_ModelCallsOffTheLoop ==
    \A r \in Slots : flights[r].at = "model" => loop # r

\* what throws while component c serves the request: the model call, or the
\* decoding of an input (the probe is decoded once some reference is retained)
FaceDecodingThrows ==
    \/ \E i \in 1..Len(request.known_faces) : ~request.known_faces[i].avatar_base_64.decodes
    \/ /\ \E i \in 1..Len(request.known_faces) : Encodable(request.known_faces, i)
       /\ ~request.photo_to_check_base64.decodes
Throws(c) ==
    CASE c = "vision" -> ~request.decodes \/ outcome.call = "raise"
      [] c = "face"   -> FaceDecodingThrows
      [] OTHER        -> outcome.call = "raise"

ExceptionTexts ==
    {"UnidentifiedImageError", "RuntimeError", "OSError", "LibsndfileError"}

\* C14: for vision, transcription, speech, embedding and face recognition, a
\* request whose model call or input decoding throws is answered 500 with the
\* exception text, never with a successful response.
C14_FailuresSurfaceAs500 ==
    \A c \in {"vision", "transcription", "tts", "embedding", "face"} :
        (Answered(c) /\ ComponentReady(c) /\ Throws(c)) =>
            /\ response.status = 500
            /\ response.body \in ExceptionTexts

\* C15: after startup the health check reports a component ready exactly
\* when its own model can be loaded, whatever happened to the others.
C15_ReadinessIsOwnLoad ==
    (phase = "done" /\ op = "health_check" /\ response.status = 200) =>
        \A c \in Components : response.body.services[HealthName(c)] = loads[c]

\* C16: once startup has finished no readiness flag and no service global
\* changes, whatever requests arrive and however they end.
C16_ReadinessFrozenAfterStartup ==
    [][phase # "starting" => (is_ready' = is_ready /\ services' = services)]_vars

\* a ready component after a failed call, next to one that is not ready
C16_Witness ==
    /\ Answered("embedding")
    /\ result.kind = "raise"
    /\ ComponentReady("embedding")
    /\ services["face"] /\ ~is_ready["face"]

\* C17: a call of generate_speech on a ready service leaves the set of files
\* as it found it, on every exit path.
C17_SpeechLeavesNoTempFile ==
    [][(phase' = "done" /\ op' = "generate_speech") => files' = files]_vars

\* the read-back fails after the file was created and written
C17_Witness ==
    /\ phase = "done" /\ op = "generate_speech"
    /\ is_ready["tts"]
    /\ outcome.step = "read"
    /\ result.kind = "raise"
    /\ files = {CallerFile}

\* C18: a call of transcribe_audio leaves the set of files as it found it:
\* the temporary file of a byte buffer is deleted on every exit path, a path
\* creates no file and the caller's file is kept.
C18_TranscriptionLeavesNoTempFile ==
    [][(phase' = "done" /\ op' \in {"transcribe_audio", "transcribe_audio_endpoint"}) =>
          files' = files]_vars

\* the probe faces that match some reference, and the identity of each
Recognized(known, probe, j) == \E i \in 1..Len(known) : Matches(known, probe, i, j)
IdentityOf(known, probe, j) == known[FirstMatch(known, probe, j)].person_id

\* the probe faces that bring an identity no earlier probe face brought
NewIdentities(known, probe) ==
    {j \in 1..Len(probe.faces) :
        /\ Recognized(known, probe, j)
        /\ \A h \in 1..(j - 1) :
              Recognized(known, probe, h) =>
                  IdentityOf(known, probe, h) # IdentityOf(known, probe, j)}

\* C19: the result lists, in detection order, the probe faces that bring a
\* new identity, each with the person_id and the name of its first matching
\* reference; so no person_id occurs twice and there is at most one entry
\* for each probe face.
C19_FirstMatchOncePerIdentity ==
    (FaceCall /\ result.kind = "return") =>
        LET known == request.known_faces
            probe == request.photo_to_check_base64
            res   == result.value
            news  == NewIdentities(known, probe)
        IN  /\ Len(res) = Cardinality(news)
            /\ Len(res) <= Len(probe.faces)
            /\ \A k, m \in 1..Len(res) : k # m => res[k].person_id # res[m].person_id
            /\ \A j \in news :
                  LET k == Cardinality({h \in news : h <= j})
                      ref == known[FirstMatch(known, probe, j)]
                  IN  res[k] = [person_id |-> ref.person_id, name |-> ref.name]

\* two probe faces whose first matches are two references of one person
\* under different names: one entry, with the name met first
C19_Witness ==
    /\ FaceCall /\ result.kind = "return"
    /\ Len(request.known_faces) = 2
    /\ request.known_faces[1].person_id = request.known_faces[2].person_id
    /\ request.known_faces[1].name # request.known_faces[2].name
    /\ Len(request.photo_to_check_base64.faces) = 2
    /\ Recognized(request.known_faces, request.photo_to_check_base64, 1)
    /\ Recognized(request.known_faces, request.photo_to_check_base64, 2)
    /\ FirstMatch(request.known_faces, request.photo_to_check_base64, 1) = 2
    /\ FirstMatch(request.known_faces, request.photo_to_check_base64, 2) = 1
    /\ result.value = << [person_id |-> request.known_faces[2].person_id,
                          name |-> request.known_faces[2].name] >>

\* the lines that tell the model to answer in the narrative format
NarrativeInstructions ==
    {"casual_use_narrative", "memory_use_narrative", "override_use_narrative",
     "respond_casual_narrative"}

\* C20: when the mode is anything but casual and no memory is a photo or a
\* video, the prompt tells the model to use the narrative format; without
\* any memory it also says that none was found.
C20_NonVisualRequiresNarrative ==
    (/\ PromptBuilt
     /\ request.conversation_type # "casual"
     /\ \A i \in 1..Len(request.context_memories) : ~PhotoOrVideo(request.context_memories[i])) =>
        /\ Instructs(prompt, NarrativeInstructions)
        /\ Len(request.context_memories) = 0 => Instructs(prompt, {"no_memories_found"})

----------------------------------------------------------------------------
(* Properties of the patient status lines of _construct_prompt *)

\* two pieces that are the same word up to the case of their letters
SameWord(a, b) ==
    a = b \/ \E c \in {{"You", "you"}, {"Kate", "KATE"}} : a \in c /\ b \in c

\* the marker "you" or the patient's name is one of the words of the text
MentionsPatient(name, description) ==
    \E i \in 1..Len(description) :
        SameWord(description[i], "you") \/ SameWord(description[i], name[1])

IsStatusLine(line) == line.k = "patient_status"

\* C21: with a patient context whose name is not empty the prompt holds one
\* status line for every memory, in order, saying PRESENT exactly when the
\* name or the marker "you" occurs in the description of that memory,
\* whatever the case, alone or before a punctuation mark included; without
\* a patient context it holds no status line.
C21_StatusLinePerMemory ==
    PromptBuilt =>
        LET mems == request.context_memories
            name == request.patient_context.name
            status == SelectSeq(prompt, IsStatusLine)
        IN  /\ (request.patient_context.given /\ Len(name) > 0) =>
                  /\ Len(status) = Len(mems)
                  /\ \A i \in 1..Len(mems) :
                        /\ status[i].n = i
                        /\ status[i].id = mems[i].memory_id
                        /\ status[i].ty = IF MentionsPatient(name, mems[i].description)
                                              THEN "PRESENT" ELSE "NOT PRESENT"
            /\ ~request.patient_context.given => Len(status) = 0

----------------------------------------------------------------------------
(* Properties of the anniversary_type of an analysis result *)

\* absent (None), or one of the labels
LabelOrAbsent(v) == v = JNull \/ (v.k = "str" /\ v.s \in AnniversaryTypes)

\* C22: the anniversary_type of every analysis result a caller gets, from
\* the service or in a 200 response, is absent or one of the seven labels;
\* "null" from the model comes out as absent and nothing else the model
\* supplies is passed through.
C22_AnniversaryTypeIsALabel ==
    /\ (AnalysisCall /\ result.kind = "return") =>
          LabelOrAbsent(result.value.anniversary_type)
    /\ (phase = "done" /\ op = "analyze_memory_endpoint" /\ response.status = 200) =>
          LabelOrAbsent(response.body.anniversary_type)

====
